---------------------------- MODULE Spec2Model ----------------------------
(***************************************************************************)
(* Directive postings: the listing/search query, its pagination, and the   *)
(* create / edit / delete requests with their transaction.                 *)
(*                                                                         *)
(* Strings are sequences of one-character strings.  The store is the five  *)
(* tables DirectivePage, DirectiveObjective, DirectiveMaterial,            *)
(* DirectiveInstruction and DirectiveImage; the two label tables are fixed.*)
(***************************************************************************)
EXTENDS Integers, Sequences, FiniteSets, TLC

VARIABLES
    db,        \* the committed store, what every other connection reads
    tx,        \* the store as the request in flight sees it (its own writes included)
    req,       \* the write request in flight (or the last one), NoReq at the start
    pc,        \* where the write request stands
    now,       \* the last value timezone.now() returned
    nextid,    \* the next value of DirectivePage's id sequence
    seen,      \* what a detail request read since the last step of the write request in flight
    resp,      \* the answer to the last completed write request (and who asked, for a delete)
    listing    \* the last answer of a list view

vars == <<db, tx, req, pc, now, nextid, seen, resp, listing>>

(*************************** bounds **************************************)
MaxId == 1          \* ids the page sequence may hand out in Spec
MaxTime == 2        \* the clock stops advancing here
MaxPosts == 16      \* postings in the stores SpecList starts from

(*************************** constants of the program ********************)
paginate_by == 15
ObjectiveMaxLength == 250
MaterialMaxLength == 250
InstructionMaxLength == 250
TitleMaxLength == 75
IntroMaxLength == 300
DiscussionMaxLength == 1000

None == <<"None">>          \* Python's None: no string, no user, no row
Users == {"u1", "u2"}

(*************************** strings *************************************)
Lower(c) == IF c = "A" THEN "a" ELSE IF c = "B" THEN "b" ELSE c

LowerStr(s) == [i \in 1..Len(s) |-> Lower(s[i])]

\* Python's `needle in hay`: needle occurs as a contiguous run of hay.
Contains(hay, needle) ==
    \E i \in 0..(Len(hay) - Len(needle)) :
        \A k \in 1..Len(needle) : hay[i + k] = needle[k]

\* the ORM's __icontains lookup: substring, ignoring case
IContains(hay, needle) == Contains(LowerStr(hay), LowerStr(needle))

\* the places <<i, j>> of the words of s: maximal runs without a space
WordSpans(s) ==
    {ij \in (1..Len(s)) \X (1..Len(s)) :
        /\ ij[1] <= ij[2]
        /\ \A k \in ij[1]..ij[2] : s[k] # " "
        /\ (ij[1] = 1 \/ s[ij[1] - 1] = " ")
        /\ (ij[2] = Len(s) \/ s[ij[2] + 1] = " ")}

\* the lexemes of a text (lower-cased words; stemming and stop words left out)
Lexemes(s) == {LowerStr(SubSeq(s, ij[1], ij[2])) : ij \in WordSpans(s)}

\* how many word positions of s carry a lexeme of q
Occurrences(s, q) ==
    Cardinality({ij \in WordSpans(s) : LowerStr(SubSeq(s, ij[1], ij[2])) \in q})

\* int(page): None when the text is no decimal integer
Digits == {"0", "1", "2", "3", "4", "5", "6", "7", "8", "9"}

DigitValue(c) ==
    CASE c = "0" -> 0 [] c = "1" -> 1 [] c = "2" -> 2 [] c = "3" -> 3
      [] c = "4" -> 4 [] c = "5" -> 5 [] c = "6" -> 6 [] c = "7" -> 7
      [] c = "8" -> 8 [] c = "9" -> 9

RECURSIVE Decimal(_)
Decimal(s) == IF s = <<>> THEN 0
              ELSE 10 * Decimal(SubSeq(s, 1, Len(s) - 1)) + DigitValue(s[Len(s)])

IsInt(s) ==
    \/ s # <<>> /\ \A i \in 1..Len(s) : s[i] \in Digits
    \/ Len(s) > 1 /\ s[1] = "-" /\ \A i \in 2..Len(s) : s[i] \in Digits

ParseInt(s) == IF s[1] = "-" THEN 0 - Decimal(SubSeq(s, 2, Len(s))) ELSE Decimal(s)

(*************************** the label tables ****************************)
\* DirectivePopulation and DirectiveDiagnosis rows: id -> name
PopulationName == <<(<<"A", "b">>), (<<"a", " ", "b">>)>>
DiagnosisName == <<(<<"b">>), (<<"a", "b">>)>>

Populations == DOMAIN PopulationName
Diagnoses == DOMAIN DiagnosisName


(*************************** the store ***********************************)
\* A DirectivePage row is [uuid, title, intro, discussion, population,
\* diagnosis, created, updated, posted_by]; a child row is [directive, body].
EmptyStore ==
    [page |-> <<>>, objectives |-> <<>>, materials |-> <<>>,
     instructions |-> <<>>, images |-> <<>>]

Tables == {"objectives", "materials", "instructions", "images"}

Max(S) == CHOOSE m \in S : \A x \in S : x <= m

Repeat(x, n) == [i \in 1..n |-> x]

\* the rows of a child table that belong to page id, in primary-key order
RowsOf(table, id) == {i \in DOMAIN table : table[i].directive = id}

RECURSIVE Keep(_, _)
Keep(table, ids) ==
    IF table = <<>> THEN <<>>
    ELSE IF table[1].directive \in ids
         THEN <<table[1]>> \o Keep(Tail(table), ids)
         ELSE Keep(Tail(table), ids)

\* the bodies of page id's rows, in order
BodiesOf(table, id) ==
    LET kept == Keep(table, {id}) IN [i \in 1..Len(kept) |-> kept[i].body]

(*************************** the listing query ***************************)
Absent == <<"absent">>      \* the key is not in request.GET

\* request.GET.get(key, default)
GETget(GET, key, default) == IF GET[key] = Absent THEN default ELSE GET[key]

is_valid_queryparam(param) == param # <<>> /\ param # None

\* NULL columns of an outer join count as '' in the search vector
Coalesce(s) == IF s = None THEN <<>> ELSE s

NameOf(names, n) == IF n = 0 THEN None ELSE names[n]

BodyOf(table, i) == IF i = 0 THEN None ELSE table[i].body

\* the labels a page is joined with: the matching ones under a filter (inner
\* join), all of them or one NULL under a search alone (left outer join), and
\* no join otherwise
LabelJoin(labels, names, filter, searching) ==
    IF filter # None THEN {n \in labels : IContains(names[n], filter)}
    ELSE IF searching /\ labels # {} THEN labels
    ELSE {0}

ChildJoin(table, id, searching) ==
    IF searching /\ RowsOf(table, id) # {} THEN RowsOf(table, id) ELSE {0}

\* the joined rows of one page: [population, diagnosis, instruction, material, objective]
JoinRows(store, id, qs) ==
    LET searching == qs.search # None
        p == store.page[id]
    IN  [population : LabelJoin(p.population, PopulationName, qs.population, searching),
         diagnosis : LabelJoin(p.diagnosis, DiagnosisName, qs.diagnosis, searching),
         instruction : ChildJoin(store.instructions, id, searching),
         material : ChildJoin(store.materials, id, searching),
         objective : ChildJoin(store.objectives, id, searching)]

\* SearchVector('title', 'intro', 'population__name', 'diagnosis__name',
\* 'discussion', 'instructions__instruction', 'materials__material',
\* 'objectives__objective') of one joined row: its columns
Vector(store, id, row) ==
    LET p == store.page[id]
    IN  <<Coalesce(p.title), Coalesce(p.intro),
          Coalesce(NameOf(PopulationName, row.population)),
          Coalesce(NameOf(DiagnosisName, row.diagnosis)),
          Coalesce(p.discussion),
          Coalesce(BodyOf(store.instructions, row.instruction)),
          Coalesce(BodyOf(store.materials, row.material)),
          Coalesce(BodyOf(store.objectives, row.objective))>>

\* SearchQuery(search): plainto_tsquery, every lexeme of the text must occur
SearchQuery(search) == Lexemes(search)

\* filter(search=query): vector @@ query
Matches(vector, query) ==
    /\ query # {}
    /\ \A w \in query : \E k \in DOMAIN vector : w \in Lexemes(vector[k])

RECURSIVE SumOccurrences(_, _, _)
SumOccurrences(vector, query, k) ==
    IF k = 0 THEN 0
    ELSE Occurrences(vector[k], query) + SumOccurrences(vector, query, k - 1)

\* SearchRank(vector, query): grows with the number of matching word positions
SearchRank(vector, query) == SumOccurrences(vector, query, Len(vector))

\* the ranks of the rows of page id that the WHERE clause keeps, one per row
MatchingRanks(store, id, qs) ==
    LET rows == JoinRows(store, id, qs)
        query == SearchQuery(qs.search)
    IN  [r \in {x \in rows : Matches(Vector(store, id, x), query)} |->
            SearchRank(Vector(store, id, r), query)]

\* order_by('-id') without distinct: every joined row of a page yields the page
RECURSIVE ByIdDescending(_, _, _)
ByIdDescending(store, ids, qs) ==
    IF ids = {} THEN <<>>
    ELSE LET m == Max(ids)
         IN  Repeat([id |-> m], Cardinality(JoinRows(store, m, qs)))
                \o ByIdDescending(store, ids \ {m}, qs)

\* the same rows for a search, left duplicated: order_by('id', '-rank') alone
RECURSIVE ByIdThenRankAll(_, _, _)
ByIdThenRankAll(store, ids, qs) ==
    IF ids = {} THEN <<>>
    ELSE LET m == Max(ids)
             ranks == MatchingRanks(store, m, qs)
         IN  ByIdThenRankAll(store, ids \ {m}, qs)
                \o Repeat([id |-> m, rank |-> IF DOMAIN ranks = {} THEN 0
                                              ELSE Max({ranks[r] : r \in DOMAIN ranks})],
                          Cardinality(DOMAIN ranks))

\* order_by('id', '-rank').distinct('id'): DISTINCT ON (id) keeps the first row
\* of each id, the one of highest rank; ids ascend
RECURSIVE ByIdThenRankDistinct(_, _, _)
ByIdThenRankDistinct(store, ids, qs) ==
    IF ids = {} THEN <<>>
    ELSE LET m == Max(ids)
             ranks == MatchingRanks(store, m, qs)
         IN  ByIdThenRankDistinct(store, ids \ {m}, qs)
                \o (IF DOMAIN ranks = {} THEN <<>>
                    ELSE <<[id |-> m, rank |-> Max({ranks[r] : r \in DOMAIN ranks})]>>)

\* a queryset evaluated without distinct('id')
Evaluate_NoDistinct(store, qs) ==
    IF qs.search # None
    THEN ByIdThenRankAll(store, DOMAIN store.page, qs)
    ELSE ByIdDescending(store, DOMAIN store.page, qs)

\* the rows a queryset yields, in order
Evaluate(store, qs) ==
    IF qs.search # None
    THEN ByIdThenRankDistinct(store, DOMAIN store.page, qs)
    ELSE ByIdDescending(store, DOMAIN store.page, qs)

\* get_queryset with the population filter added whatever the parameter holds
QueryOf_PopulationUnchecked(GET) ==
    LET search == GETget(GET, "search", <<>>)
        population == GETget(GET, "population", <<>>)
        diagnosis == GETget(GET, "diagnosis", <<>>)
    IN  [population |-> population,
         diagnosis |-> IF is_valid_queryparam(diagnosis) THEN diagnosis ELSE None,
         search |-> IF is_valid_queryparam(search) THEN search ELSE None]

\* ListDirectivePage.get_queryset: the clauses the request's parameters add
QueryOf(GET) ==
    LET search == GETget(GET, "search", <<>>)
        population == GETget(GET, "population", <<>>)
        diagnosis == GETget(GET, "diagnosis", <<>>)
    IN  [population |-> IF is_valid_queryparam(population) THEN population ELSE None,
         diagnosis |-> IF is_valid_queryparam(diagnosis) THEN diagnosis ELSE None,
         search |-> IF is_valid_queryparam(search) THEN search ELSE None]

get_queryset(store, GET) == Evaluate(store, QueryOf(GET))

\* ListUserDirectivePage.get_queryset: filter(posted_by=user).order_by('-id')
RECURSIVE Descending(_)
Descending(ids) ==
    IF ids = {} THEN <<>>
    ELSE <<[id |-> Max(ids)]>> \o Descending(ids \ {Max(ids)})

user_get_queryset(store, user) ==
    Descending({i \in DOMAIN store.page : store.page[i].posted_by = user})

(*************************** pagination **********************************)
Min(a, b) == IF a < b THEN a ELSE b

\* Paginator.num_pages with allow_empty_first_page: at least one page
NumPages(count) ==
    IF count = 0 THEN 1 ELSE (count + paginate_by - 1) \div paginate_by

Slice(object_list, number) ==
    SubSeq(object_list, (number - 1) * paginate_by + 1,
           Min(number * paginate_by, Len(object_list)))

\* a paginator that answers an empty page beyond the last one
PaginateLenient(object_list, GET) ==
    LET page == IF GETget(GET, "page", <<>>) # <<>> THEN GET["page"] ELSE <<"1">>
        number == IF IsInt(page) THEN ParseInt(page)
                  ELSE IF page = <<"l", "a", "s", "t">> THEN NumPages(Len(object_list))
                  ELSE 0
    IN  IF number < 1
        THEN [status |-> 404, number |-> 0, object_list |-> <<>>]
        ELSE [status |-> 200, number |-> number,
              object_list |-> Slice(object_list, number)]

\* ListView with paginate_by: page = GET.get('page') or 1; int(page), or 'last';
\* Paginator.page(number) raises InvalidPage below 1 and above num_pages, and
\* the view answers 404
Paginate(object_list, GET) ==
    LET page == IF GETget(GET, "page", <<>>) # <<>> THEN GET["page"] ELSE <<"1">>
        num_pages == NumPages(Len(object_list))
        number == IF IsInt(page) THEN ParseInt(page)
                  ELSE IF page = <<"l", "a", "s", "t">> THEN num_pages
                  ELSE 0
    IN  IF number < 1 \/ number > num_pages
        THEN [status |-> 404, number |-> 0, object_list |-> <<>>]
        ELSE [status |-> 200, number |-> number,
              object_list |-> Slice(object_list, number)]


(*************************** the model layer *****************************)
NoUser == "nobody"          \* posted_by is NULL
NullTime == 0               \* created / updated are NULL
Unsaved == 0                \* an instance that has no id yet

\* uuid.uuid4 of the n-th instance built: distinct for distinct instances
Uuid(n) == <<"uuid", n>>

\* DirectivePage.save that stamps `created` on every save
save_RestampCreated(instance, t1, t2) ==
    [instance EXCEPT !.created = t1, !.updated = t2]

\* DirectivePage.save; t1 and t2 are what the two timezone.now() calls return
save(instance, t1, t2) ==
    [instance EXCEPT !.created = IF instance.id = Unsaved THEN t1 ELSE @,
                     !.updated = t2]

\* the two readings of the clock of one save: it never runs backwards
Readings ==
    {t \in (now..Min(now + 1, MaxTime)) \X (now..Min(now + 1, MaxTime)) : t[1] <= t[2]}

\* Model.save_base: the row is inserted under a fresh id or updated in place
Write(store, instance, id) ==
    [store EXCEPT !.page = (id :> [instance EXCEPT !.id = id]) @@ @]

\* a delete that leaves the child rows behind
Cascade_PageOnly(store, id) ==
    [store EXCEPT !.page = [i \in DOMAIN @ \ {id} |-> @[i]]]

\* DirectivePage.delete with on_delete=CASCADE on the four `directive` keys
Cascade(store, id) ==
    [page |-> [i \in DOMAIN store.page \ {id} |-> store.page[i]],
     objectives |-> Keep(store.objectives, DOMAIN store.page \ {id}),
     materials |-> Keep(store.materials, DOMAIN store.page \ {id}),
     instructions |-> Keep(store.instructions, DOMAIN store.page \ {id}),
     images |-> Keep(store.images, DOMAIN store.page \ {id})]

\* the field checks of the header form built from the model's fields
HeaderValid(form) ==
    /\ form.title # <<>> /\ Len(form.title) <= TitleMaxLength
    /\ form.intro # <<>> /\ Len(form.intro) <= IntroMaxLength
    /\ form.discussion # <<>> /\ Len(form.discussion) <= DiscussionMaxLength
    /\ form.population # {} /\ form.population \subseteq Populations
    /\ form.diagnosis # {} /\ form.diagnosis \subseteq Diagnoses

TextValid(text, max_length) == text # <<>> /\ Len(text) <= max_length

\* formset.is_valid() of each of the four formsets
ObjectivesValid(batch) ==
    \A k \in DOMAIN batch : TextValid(batch[k], ObjectiveMaxLength)
MaterialsValid(batch) ==
    \A k \in DOMAIN batch : TextValid(batch[k], MaterialMaxLength)
InstructionsValid(batch) ==
    \A k \in DOMAIN batch : TextValid(batch[k], InstructionMaxLength)
ImagesValid(batch) == \A k \in DOMAIN batch : batch[k].is_image

\* the condition of form_valid's if
AllValid(batches) ==
    /\ ObjectivesValid(batches.objectives)
    /\ MaterialsValid(batches.materials)
    /\ InstructionsValid(batches.instructions)
    /\ ImagesValid(batches.images)

\* formset.instance = self.object; formset.save(): the page's rows become the
\* submitted ones, each carrying the page's id
FormsetSave(table, id, batch) ==
    Keep(table, {table[i].directive : i \in DOMAIN table} \ {id})
        \o [k \in 1..Len(batch) |-> [directive |-> id, body |-> batch[k]]]

\* get_object: the id of the row of the queryset with this uuid, Unsaved if none
Lookup(store, ids, uuid) ==
    IF \E i \in ids : store.page[i].uuid = uuid
    THEN CHOOSE i \in ids : store.page[i].uuid = uuid
    ELSE Unsaved

\* DetailDirectivePage: the page and its four collections, or 404
DetailOf(store, id) ==
    IF id \in DOMAIN store.page
    THEN [status |-> 200, page |-> store.page[id],
          objectives |-> BodiesOf(store.objectives, id),
          materials |-> BodiesOf(store.materials, id),
          instructions |-> BodiesOf(store.instructions, id),
          images |-> BodiesOf(store.images, id)]
    ELSE [status |-> 404]

\* a connection that reads the uncommitted writes of the request in flight
Visible_Dirty(committed, working) == working

\* what another connection reads while form_valid runs under
\* @transaction.atomic: only what has been committed
Visible(committed, working) == committed


(*************************** what the requests submit ********************)
TextA == <<"a">>
TextAB == <<"a", " ", "b">>
TextB == <<"B">>
TooLong == Repeat("a", ObjectiveMaxLength + 1)

Forms ==
    {[title |-> TextA, intro |-> TextB, discussion |-> TextAB,
      population |-> {1}, diagnosis |-> {1}],
     [title |-> TextB, intro |-> TextB, discussion |-> TextB,
      population |-> {1, 2}, diagnosis |-> {2}],
     [title |-> <<>>, intro |-> TextB, discussion |-> TextB,
      population |-> {1}, diagnosis |-> {1}]}

Upload == [name |-> <<"f">>, is_image |-> TRUE]
NotAnImage == [name |-> <<"g">>, is_image |-> FALSE]

\* one valid submission, and one with each batch invalid in turn
Valid1 ==
    [objectives |-> <<TextA>>, materials |-> <<TextB>>,
     instructions |-> <<TextA, TextAB>>, images |-> <<Upload>>]

Submissions ==
    {Valid1,
     [Valid1 EXCEPT !.objectives = <<TextA, TooLong>>],
     [Valid1 EXCEPT !.materials = <<(<<>>)>>],
     [Valid1 EXCEPT !.instructions = <<TextA, <<>> >>],
     [Valid1 EXCEPT !.images = <<NotAnImage>>]}

Uuids == {Uuid(n) : n \in 1..MaxId}

NoReq == [kind |-> "none"]
NoSeen == [phase |-> "none"]
NoListing == [view |-> "none"]
NoResp == [view |-> "none", user |-> NoUser, status |-> "none"]

InFlight == pc # "idle"

(*************************** the write requests **************************)
\* CreateView.post with an invalid header form: form_invalid, nothing is saved
CreateInvalidHeader(u, form) ==
    /\ pc = "idle"
    /\ ~HeaderValid(form)
    /\ resp' = [view |-> "create", user |-> NoUser, status |-> "invalid"]
    /\ UNCHANGED <<db, tx, req, pc, now, nextid, seen, listing>>

\* CreateDirectivePage.form_valid up to its if: the transaction starts, the
\* header is inserted by form.save(), posted_by is set on the instance in memory
CreateBegin(u, form, batches) ==
    /\ pc = "idle"
    /\ nextid <= MaxId
    /\ HeaderValid(form)
    /\ \E t \in Readings :
        LET instance == [id |-> Unsaved, uuid |-> Uuid(nextid),
                         title |-> form.title, intro |-> form.intro,
                         discussion |-> form.discussion,
                         population |-> form.population,
                         diagnosis |-> form.diagnosis,
                         created |-> NullTime, updated |-> NullTime,
                         posted_by |-> NoUser]
            saved == [save(instance, t[1], t[2]) EXCEPT !.id = nextid]
        IN  /\ tx' = Write(db, saved, nextid)
            /\ req' = [kind |-> "create", user |-> u, id |-> nextid,
                       instance |-> [saved EXCEPT !.posted_by = u],
                       batches |-> batches, before |-> DetailOf(db, nextid)]
            /\ now' = t[2]
    /\ nextid' = nextid + 1
    /\ pc' = "header"
    /\ seen' = NoSeen
    /\ resp' = NoResp
    /\ UNCHANGED <<db, listing>>

\* an edit addressed to a uuid no page has: 404
EditNotFound(u, uuid) ==
    /\ pc = "idle"
    /\ Lookup(db, DOMAIN db.page, uuid) = Unsaved
    /\ resp' = [view |-> "edit", user |-> NoUser, status |-> "404"]
    /\ UNCHANGED <<db, tx, req, pc, now, nextid, seen, listing>>

\* UpdateView.post with an invalid header form
EditInvalidHeader(u, uuid, form) ==
    /\ pc = "idle"
    /\ Lookup(db, DOMAIN db.page, uuid) # Unsaved
    /\ ~HeaderValid(form)
    /\ resp' = [view |-> "edit", user |-> NoUser, status |-> "invalid"]
    /\ UNCHANGED <<db, tx, req, pc, now, nextid, seen, listing>>

\* EditDirectivePage: get_object looks the uuid up among all pages, then
\* form_valid up to its if: the header is updated by form.save()
EditBegin(u, uuid, form, batches) ==
    LET id == Lookup(db, DOMAIN db.page, uuid)
    IN  /\ pc = "idle"
        /\ id # Unsaved
        /\ HeaderValid(form)
        /\ \E t \in Readings :
            LET instance == [db.page[id] EXCEPT
                                !.title = form.title, !.intro = form.intro,
                                !.discussion = form.discussion,
                                !.population = form.population,
                                !.diagnosis = form.diagnosis]
                saved == save(instance, t[1], t[2])
            IN  /\ tx' = Write(db, saved, id)
                /\ req' = [kind |-> "edit", user |-> u, id |-> id,
                           instance |-> saved,
                           batches |-> batches, before |-> DetailOf(db, id)]
                /\ now' = t[2]
        /\ pc' = "header"
        /\ seen' = NoSeen
        /\ resp' = NoResp
        /\ UNCHANGED <<db, nextid, listing>>

\* the else branch: return self.form_invalid(form).  The function returns
\* normally, so the atomic block commits what form.save() wrote.
Reject ==
    /\ pc = "header"
    /\ ~AllValid(req.batches)
    /\ db' = tx
    /\ pc' = "idle"
    /\ req' = NoReq
    /\ resp' = [view |-> req.kind, user |-> NoUser, status |-> "invalid"]
    /\ seen' = NoSeen
    /\ UNCHANGED <<tx, now, nextid, listing>>

SaveObjectives ==
    /\ pc = "header"
    /\ AllValid(req.batches)
    /\ tx' = [tx EXCEPT !.objectives = FormsetSave(@, req.id, req.batches.objectives)]
    /\ pc' = "objectives"
    /\ seen' = NoSeen
    /\ UNCHANGED <<db, req, now, nextid, resp, listing>>

SaveMaterials ==
    /\ pc = "objectives"
    /\ tx' = [tx EXCEPT !.materials = FormsetSave(@, req.id, req.batches.materials)]
    /\ pc' = "materials"
    /\ seen' = NoSeen
    /\ UNCHANGED <<db, req, now, nextid, resp, listing>>

SaveInstructions ==
    /\ pc = "materials"
    /\ tx' = [tx EXCEPT !.instructions = FormsetSave(@, req.id, req.batches.instructions)]
    /\ pc' = "instructions"
    /\ seen' = NoSeen
    /\ UNCHANGED <<db, req, now, nextid, resp, listing>>

SaveImages ==
    /\ pc = "instructions"
    /\ tx' = [tx EXCEPT !.images = FormsetSave(@, req.id, req.batches.images)]
    /\ pc' = "images"
    /\ seen' = NoSeen
    /\ UNCHANGED <<db, req, now, nextid, resp, listing>>

\* return super().form_valid(form): form.save() saves the instance once more
\* (for a create, now with posted_by), the view redirects, the block commits
Finish ==
    /\ pc = "images"
    /\ \E t \in Readings :
        /\ db' = Write(tx, save(req.instance, t[1], t[2]), req.id)
        /\ now' = t[2]
    /\ tx' = db'
    /\ pc' = "idle"
    /\ req' = NoReq
    /\ resp' = [view |-> req.kind, user |-> NoUser, status |-> "redirect"]
    /\ seen' = NoSeen
    /\ UNCHANGED <<nextid, listing>>

\* an exception inside the atomic block (image processing, storage): rollback
Fault ==
    /\ pc \in {"header", "objectives", "materials", "instructions", "images"}
    /\ AllValid(req.batches)
    /\ tx' = db
    /\ pc' = "idle"
    /\ req' = NoReq
    /\ resp' = [view |-> req.kind, user |-> NoUser, status |-> "error"]
    /\ seen' = NoSeen
    /\ UNCHANGED <<db, now, nextid, listing>>

\* DeleteDirectivePage: get_object looks the uuid up among the requester's own
\* pages; the delete cascades
Delete(u, uuid) ==
    LET own == {i \in DOMAIN db.page : db.page[i].posted_by = u}
        id == Lookup(db, own, uuid)
    IN  /\ pc = "idle"
        /\ IF id = Unsaved
           THEN /\ resp' = [view |-> "delete", user |-> u, status |-> "404"]
                /\ UNCHANGED <<db, tx>>
           ELSE /\ db' = Cascade(db, id)
                /\ tx' = db'
                /\ resp' = [view |-> "delete", user |-> u, status |-> "redirect"]
        /\ UNCHANGED <<req, pc, now, nextid, seen, listing>>

(*************************** the readers *********************************)
\* DetailDirectivePage, on another connection, at any moment
Detail(uuid) ==
    LET store == Visible(db, tx)
        id == Lookup(store, DOMAIN store.page, uuid)
    IN  /\ InFlight
        /\ uuid = req.instance.uuid
        /\ seen' = [phase |-> pc, view |-> DetailOf(store, id)]
        /\ UNCHANGED <<db, tx, req, pc, now, nextid, resp, listing>>

Init ==
    /\ db = EmptyStore
    /\ tx = EmptyStore
    /\ req = NoReq
    /\ pc = "idle"
    /\ now = 1
    /\ nextid = 1
    /\ seen = NoSeen
    /\ resp = NoResp
    /\ listing = NoListing

Next ==
    \/ \E u \in Users, form \in Forms : CreateInvalidHeader(u, form)
    \/ \E u \in Users, form \in Forms, batches \in Submissions :
            CreateBegin(u, form, batches)
    \/ \E u \in Users, uuid \in Uuids : EditNotFound(u, uuid)
    \/ \E u \in Users, uuid \in Uuids, form \in Forms : EditInvalidHeader(u, uuid, form)
    \/ \E u \in Users, uuid \in Uuids, form \in Forms, batches \in Submissions :
            EditBegin(u, uuid, form, batches)
    \/ Reject
    \/ SaveObjectives
    \/ SaveMaterials
    \/ SaveInstructions
    \/ SaveImages
    \/ Finish
    \/ Fault
    \/ \E u \in Users, uuid \in Uuids : Delete(u, uuid)
    \/ \E uuid \in Uuids : Detail(uuid)

Spec == Init /\ [][Next]_vars


(*************************** the list views ******************************)
\* ListDirectivePage
ListDirectives(GET) ==
    LET queryset == get_queryset(Visible(db, tx), GET)
        page == Paginate(queryset, GET)
    IN  /\ listing' = [view |-> "list", GET |-> GET, queryset |-> queryset,
                       status |-> page.status, number |-> page.number,
                       object_list |-> page.object_list]
        /\ UNCHANGED <<db, tx, req, pc, now, nextid, seen, resp>>

\* ListUserDirectivePage
ListUserDirectives(u, GET) ==
    LET queryset == user_get_queryset(Visible(db, tx), u)
        page == Paginate(queryset, GET)
    IN  /\ listing' = [view |-> "user", GET |-> GET, queryset |-> queryset,
                       status |-> page.status, number |-> page.number,
                       object_list |-> page.object_list]
        /\ UNCHANGED <<db, tx, req, pc, now, nextid, seen, resp>>

\* the stores the list views are run on: n postings, the first two with
\* contents of their own, the others alike
Samples ==
    {[title |-> TextA, intro |-> TextB, discussion |-> TextAB,
      population |-> {1, 2}, diagnosis |-> {1, 2}, posted_by |-> "u1",
      objectives |-> <<TextA>>, materials |-> <<TextB>>,
      instructions |-> <<TextA, TextAB>>],
     [title |-> TextB, intro |-> TextB, discussion |-> TextB,
      population |-> {1}, diagnosis |-> {2}, posted_by |-> "u2",
      objectives |-> <<>>, materials |-> <<>>, instructions |-> <<>>],
     [title |-> TextAB, intro |-> TextB, discussion |-> TextB,
      population |-> {2}, diagnosis |-> {1}, posted_by |-> NoUser,
      objectives |-> <<TextB>>, materials |-> <<TextB>>,
      instructions |-> <<TextB>>]}

Filler ==
    [title |-> TextB, intro |-> TextB, discussion |-> TextB,
     population |-> {2}, diagnosis |-> {2}, posted_by |-> "u1",
     objectives |-> <<>>, materials |-> <<>>, instructions |-> <<>>]

RowsFor(id, batch) == [k \in 1..Len(batch) |-> [directive |-> id, body |-> batch[k]]]

RECURSIVE StoreOf(_, _)
StoreOf(contents, n) ==
    IF n = 0 THEN EmptyStore
    ELSE LET rest == StoreOf(contents, n - 1)
             c == contents[n]
         IN  [page |-> (n :> [id |-> n, uuid |-> Uuid(n), title |-> c.title,
                              intro |-> c.intro, discussion |-> c.discussion,
                              population |-> c.population,
                              diagnosis |-> c.diagnosis,
                              created |-> 1, updated |-> 1,
                              posted_by |-> c.posted_by]) @@ rest.page,
              objectives |-> rest.objectives \o RowsFor(n, c.objectives),
              materials |-> rest.materials \o RowsFor(n, c.materials),
              instructions |-> rest.instructions \o RowsFor(n, c.instructions),
              images |-> rest.images \o RowsFor(n, <<Upload>>)]

\* none, one, two, exactly one page, and more than one page
Sizes == {0, 1, 2, paginate_by, MaxPosts}

ListStores ==
    {StoreOf([i \in 1..n |-> IF i = 1 THEN c[1] ELSE IF i = 2 THEN c[2] ELSE Filler], n) :
        n \in Sizes, c \in Samples \X Samples}

Blank == <<" ">>
SearchValues == {Absent, <<>>, TextA, TextAB}
PopulationValues == {Absent, <<>>, Blank, <<"A">>}
DiagnosisValues == {Absent, <<>>, Blank, <<"b">>}
PageValues == {Absent, <<"0">>, <<"1">>, <<"2">>, <<"3">>, <<"l", "a", "s", "t">>, <<"x">>}

Requests ==
    [search : SearchValues, population : PopulationValues,
     diagnosis : DiagnosisValues, page : PageValues]

UserRequests == [page : PageValues]

InitList ==
    /\ db \in ListStores
    /\ tx = db
    /\ req = NoReq
    /\ pc = "idle"
    /\ now = 1
    /\ nextid = Cardinality(DOMAIN db.page) + 1
    /\ seen = NoSeen
    /\ resp = NoResp
    /\ listing = NoListing

\* one list request on each store
NextList ==
    \/ \E GET \in Requests : listing = NoListing /\ ListDirectives(GET)
    \/ \E u \in Users, GET \in UserRequests :
            listing = NoListing /\ ListUserDirectives(u, GET)

SpecList == InitList /\ [][NextList]_vars


(*************************** properties: the write requests **************)
Completes == pc # "idle" /\ pc' = "idle"

\* C1: a create or edit whose header is valid but one of whose four batches
\* is invalid leaves all five tables as they were before the request.
C1_RejectedSubmissionPersistsNothing ==
    [][(Completes /\ ~AllValid(req.batches)) => db' = db]_vars

\* C2: an edit or a delete addressed to a posting by a requester other than
\* its author is rejected and leaves the posting's header and four
\* collections unchanged.
C2_OnlyAuthorMutates ==
    [][/\ (Completes /\ req.kind = "edit"
              /\ req.before.page.posted_by \in Users \ {req.user})
            => db' = db
       /\ (pc = "idle" /\ pc' = "idle" /\ resp'.view = "delete")
            => \A p \in DOMAIN db.page :
                  db.page[p].posted_by \in Users \ {resp'.user}
                     => DetailOf(db', p) = DetailOf(db, p)
      ]_vars

\* the store holds the header and all four batches of request r
FullyWritten(store, r) ==
    LET view == DetailOf(store, r.id)
    IN  /\ view.status = 200
        /\ view.page.title = r.instance.title
        /\ view.page.population = r.instance.population
        /\ view.objectives = r.batches.objectives
        /\ view.materials = r.batches.materials
        /\ view.instructions = r.batches.instructions
        /\ view.images = r.batches.images

Persists(p) ==
    \/ pc = "idle" /\ pc' = "header" /\ p = req'.id
    \/ pc = "images" /\ resp'.status = "redirect" /\ p = req.id

\* C8: created keeps the value of the first persist, updated is assigned on
\* every persist, and updated >= created, in the transaction's view and in the
\* committed store.
C8_Timestamps ==
    [][/\ \A p \in DOMAIN tx'.page :
            /\ tx'.page[p].updated >= tx'.page[p].created
            /\ tx'.page[p].created # NullTime
            /\ p \in DOMAIN tx.page => tx'.page[p].created = tx.page[p].created
            /\ Persists(p) => tx'.page[p].updated = now'
       /\ \A p \in DOMAIN db'.page :
            /\ db'.page[p].updated >= db'.page[p].created
            /\ p \in DOMAIN db.page => db'.page[p].created = db.page[p].created
      ]_vars

\* a posting whose create took two saves at different times, edited later
C8_Witness ==
    /\ resp.view = "edit" /\ resp.status = "redirect"
    /\ \E p \in DOMAIN db.page :
          db.page[p].created < db.page[p].updated /\ db.page[p].updated = now

\* C9: every row a create request leaves in the store has posted_by equal to
\* the user who made the request.
C9_CreatedRowHasAuthor ==
    [][(Completes /\ req.kind = "create" /\ req.id \in DOMAIN db'.page)
            => db'.page[req.id].posted_by = req.user]_vars

References(store) ==
    \A t \in Tables : \A i \in DOMAIN store[t] : store[t][i].directive \in DOMAIN store.page

\* C10: every objective, material, instruction and image row references a
\* page that exists, in the committed store and in the transaction's view.
C10_ChildRowsReferenceExistingPage == References(db) /\ References(tx)

\* a page that had rows in all four tables (only a request that wrote them
\* sets posted_by) was deleted by its author, and no row is left
C10_Witness ==
    /\ resp.view = "delete" /\ resp.status = "redirect"
    /\ nextid > 1
    /\ db = EmptyStore

(*************************** properties: the list views ******************)
Times(seq, id) == Cardinality({i \in DOMAIN seq : seq[i].id = id})

NoDuplicates(seq) == \A i, j \in DOMAIN seq : seq[i].id = seq[j].id => i = j

SearchOf(GET) == GETget(GET, "search", <<>>)

\* C4: with a non-empty search text every posting that matches, through
\* however many joined rows, is exactly once in the ordered result, and so at
\* most once on the page.
C4_SearchListsEachPostingOnce ==
    (listing.view = "list" /\ SearchOf(listing.GET) # <<>>) =>
        /\ \A id \in DOMAIN db.page :
              Times(listing.queryset, id) =
                 IF DOMAIN MatchingRanks(db, id, QueryOf(listing.GET)) # {} THEN 1 ELSE 0
        /\ NoDuplicates(listing.object_list)

\* a search under a population filter, matched by one posting through several
\* joined rows
C4_Witness ==
    /\ listing.view = "list"
    /\ SearchOf(listing.GET) # <<>>
    /\ listing.GET["population"] = <<"A">>
    /\ \E id \in DOMAIN db.page :
          /\ Cardinality(DOMAIN MatchingRanks(db, id, QueryOf(listing.GET))) > 2
          /\ Times(listing.object_list, id) = 1

\* C5: no listing query, with or without a search text, has a posting more
\* than once in its result.
C5_NoPostingListedTwice ==
    listing.view # "none" => NoDuplicates(listing.queryset)

PageOf(GET) == GETget(GET, "page", <<>>)

IsPositiveInt(s) == IsInt(s) /\ ParseInt(s) >= 1

\* C6 as stated: a page holds at most 15 postings, a positive page number
\* beyond the last page gets an empty page and no error, and only a page
\* number that is no positive integer is an error.
C6_PageBeyondLastIsEmpty ==
    listing.view # "none" =>
        /\ Len(listing.object_list) <= 15
        /\ IsPositiveInt(PageOf(listing.GET)) => listing.status = 200
        /\ (IsPositiveInt(PageOf(listing.GET))
              /\ ParseInt(PageOf(listing.GET)) > NumPages(Len(listing.queryset)))
             => listing.object_list = <<>>
        /\ listing.status = 404 => ~IsPositiveInt(PageOf(listing.GET))

\* C6 amended: a page holds at most 15 postings; a positive page number up to
\* the last page gets that slice of the result, one beyond the last page gets
\* 404; an absent or empty page parameter means page 1 and 'last' the last
\* page; every other value gets 404.
C6_PageBeyondLastIsNotFound ==
    listing.view # "none" =>
        LET page == PageOf(listing.GET)
            last == NumPages(Len(listing.queryset))
            number == IF page = <<>> THEN 1
                      ELSE IF page = <<"l", "a", "s", "t">> THEN last
                      ELSE IF IsPositiveInt(page) THEN ParseInt(page)
                      ELSE 0
        IN  /\ Len(listing.object_list) <= 15
            /\ (number >= 1 /\ number <= last) =>
                  /\ listing.status = 200
                  /\ listing.object_list =
                        [i \in 1..Min(15, Len(listing.queryset) - 15 * (number - 1)) |->
                            listing.queryset[15 * (number - 1) + i]]
            /\ (number < 1 \/ number > last) =>
                  /\ listing.status = 404
                  /\ listing.object_list = <<>>

\* page 3 of a result of two pages was asked for, after page 1 could be full
C6_Witness ==
    /\ listing.view = "list"
    /\ Len(listing.queryset) > 15
    /\ PageOf(listing.GET) = <<"3">>
    /\ listing.status = 404

IsBlank(s) == \A i \in DOMAIN s : s[i] = " "

\* the result of the request with the clause of one filter left out
Unfiltered(key) == Evaluate(db, [QueryOf(listing.GET) EXCEPT ![key] = None])

\* C7 as stated: a population or diagnosis filter that is empty or only
\* whitespace restricts nothing: the result is that of the query without it.
C7_BlankFilterIsNoFilter ==
    listing.view = "list" =>
        \A key \in {"population", "diagnosis"} :
            IsBlank(GETget(listing.GET, key, <<>>)) => listing.queryset = Unfiltered(key)

\* C7 amended: a population or diagnosis filter that is empty restricts
\* nothing: the result is that of the query without it.
C7_EmptyFilterIsNoFilter ==
    listing.view = "list" =>
        \A key \in {"population", "diagnosis"} :
            GETget(listing.GET, key, <<>>) = <<>> => listing.queryset = Unfiltered(key)

\* an empty population parameter beside a diagnosis filter and a search text,
\* on a store where the population clause would have changed the result
C7_Witness ==
    /\ listing.view = "list"
    /\ listing.GET["population"] = <<>>
    /\ listing.GET["diagnosis"] = <<"b">>
    /\ listing.queryset # <<>>
    /\ listing.queryset #
          Evaluate(db, [QueryOf(listing.GET) EXCEPT !["population"] = <<>>])

=============================================================================
